---- MODULE Spec2Model ----
(***************************************************************************)
(* Model of netdrawer.py: the operator-node labeler (GetOpNodeProducer /   *)
(* ReallyGetOpNode), the docstring sanitizer and the graph builder          *)
(* GetPydotGraph.                                                           *)
(*                                                                         *)
(* Text is modelled as a tuple of one-character strings, so that           *)
(* concatenation, decimal formatting, JSON escaping and str.replace are     *)
(* computed character by character.                                        *)
(***************************************************************************)
EXTENDS Integers, Sequences, FiniteSets, TLC

VARIABLES
    graph,              \* graph.node: the operator list given to GetPydotGraph
    embed_docstring,    \* the embed_docstring argument
    pc,                 \* position in GetPydotGraph
    op_id,              \* enumerate index of the operator being processed
    pos,                \* number of names of the current input/output list already processed
    op_node,            \* the pydot.Node created for the current operator (reference into heap)
    heap,               \* every pydot.Node object created so far, in creation order
    graph_nodes,        \* pydot_graph.add_node calls, in order (references into heap)
    graph_edges,        \* pydot_graph.add_edge calls, in order
    pydot_nodes,        \* dict: blob name -> current version node
    pydot_node_counts   \* defaultdict(int): blob name -> version counter

vars == <<graph, embed_docstring, pc, op_id, pos, op_node, heap,
          graph_nodes, graph_edges, pydot_nodes, pydot_node_counts>>

-----------------------------------------------------------------------------
(* Text helpers *)

Digits == <<"0", "1", "2", "3", "4", "5", "6", "7", "8", "9">>

\* str(n) and '%d' % n for a non-negative integer
RECURSIVE str(_)
str(n) == IF n < 10 THEN <<Digits[n + 1]>>
          ELSE str(n \div 10) \o <<Digits[(n % 10) + 1]>>

\* json.dumps of one character of the modelled (ASCII) alphabet
JsonChar(c) ==
    IF c = "\"" THEN <<"\\", "\"">>
    ELSE IF c = "\\" THEN <<"\\", "\\">>
    ELSE IF c = "\n" THEN <<"\\", "n">>
    ELSE <<c>>

RECURSIVE JsonBody(_)
JsonBody(s) == IF s = <<>> THEN <<>> ELSE JsonChar(Head(s)) \o JsonBody(Tail(s))

escape_label(name) == <<"\"">> \o JsonBody(name) \o <<"\"">>

\* s.replace(old, new) for a one-character old
RECURSIVE replace(_, _, _)
replace(s, old, new) ==
    IF s = <<>> THEN <<>>
    ELSE (IF Head(s) = old THEN new ELSE <<Head(s)>>) \o replace(Tail(s), old, new)

UrlPrefix == <<"j", "a", "v", "a", "s", "c", "r", "i", "p", "t", ":",
               "a", "l", "e", "r", "t", "(">>

form_and_sanitize_docstring_keeps_lt(s) ==
    UrlPrefix
      \o replace(replace(escape_label(s), "\"", <<"'">>), ">", <<>>)
      \o <<")">>

form_and_sanitize_docstring(s) ==
    UrlPrefix
      \o replace(replace(replace(escape_label(s), "\"", <<"'">>), "<", <<>>), ">", <<>>)
      \o <<")">>

-----------------------------------------------------------------------------
(* The node labeler *)

timings == <<1325706, 799440, 1263204, 257175, 936527, 2387987, 241757, 260674, 239340, 416096,
             422262, 101753, 1302205, 255840, 256091, 238423, 388095, 727271, 371094, 72168,
             1496044, 145171, 205172, 159504, 244174, 668436, 84169, 1276538, 145671, 222340,
             178588, 283175, 335177, 267424, 58919, 808940, 83086, 138254, 81336, 138670,
             390011, 57585, 3122175, 81586, 160588, 80085, 153421, 502681, 61502, 1581796,
             93753, 207673, 93669, 156505, 663186, 59502, 1563713, 93503, 202422, 94170,
             152255, 135504, 3697191, 240590, 294509, 347594>>

\* if (op_id <= len(timings)): timing = timings[op_id]  else: timing = 0
\* timings[op_id] on a Python list raises IndexError when op_id = len(timings).
TimingLookup(id) ==
    IF id <= Len(timings)
    THEN IF id + 1 \in DOMAIN timings
         THEN [raised |-> FALSE, timing |-> timings[id + 1]]
         ELSE [raised |-> TRUE, timing |-> 0]
    ELSE [raised |-> FALSE, timing |-> 0]

\* the lines "\n input<i> <name>" / "\n output<i> <name>" for positions i..len-1
RECURSIVE IoLines(_, _, _)
IoLines(word, names, i) ==
    IF i >= Len(names) THEN <<>>
    ELSE <<"\n", " ">> \o word \o str(i) \o <<" ">> \o names[i + 1]
           \o IoLines(word, names, i + 1)

NodeName(op, id) ==
    (IF op.name # <<>>
     THEN op.name \o <<"/">> \o op.op_type \o <<" ", "(", "o", "p", "#">> \o str(id) \o <<")">>
     ELSE op.op_type \o <<" ", "(", "o", "p", "#">> \o str(id) \o <<")", " ", "[">>
            \o str(TimingLookup(id).timing) \o <<" ", "n", "s", "]">>)
      \o IoLines(<<"i", "n", "p", "u", "t">>, op.input, 0)
      \o IoLines(<<"o", "u", "t", "p", "u", "t">>, op.output, 0)

\* A pydot.Node object.  name/label/URL are what the code passes to pydot;
\* blob, ver and op record, for a blob node, the blob name and counter value
\* its name was built from and, for every node, the enumerate index of the
\* operator during whose processing it was created.
OpNode(op, id, embed) ==
    [kind |-> "op", name |-> NodeName(op, id), label |-> <<>>,
     has_URL |-> embed,
     URL |-> IF embed THEN form_and_sanitize_docstring(op.doc_string) ELSE <<>>,
     blob |-> <<>>, ver |-> 0, op |-> id]

ReallyGetOpNode(op, id, embed) ==
    IF op.name = <<>> /\ TimingLookup(id).raised
    THEN [raised |-> TRUE, node |-> OpNode(op, 0, FALSE)]
    ELSE [raised |-> FALSE, node |-> OpNode(op, id, embed)]

-----------------------------------------------------------------------------
(* The graph builder *)

BlobNodeName(name, count) == escape_label(name \o str(count))

BlobNode(name, count, id) ==
    [kind |-> "blob", name |-> BlobNodeName(name, count), label |-> escape_label(name),
     has_URL |-> FALSE, URL |-> <<>>,
     blob |-> name, ver |-> count, op |-> id]

\* defaultdict(int).__getitem__: the value, 0 for a missing key ...
CountGet(counts, name) == IF name \in DOMAIN counts THEN counts[name] ELSE 0

\* ... and dict assignment (a defaultdict read of a missing key also stores it)
Put(d, key, value) == [k \in DOMAIN d \cup {key} |-> IF k = key THEN value ELSE d[k]]

\* if input_name not in pydot_nodes
InputIsNew_always(name, nodes) == TRUE

InputIsNew(name, nodes) == name \notin DOMAIN nodes

\* if output_name in pydot_nodes: pydot_node_counts[output_name] += 1
OutputCount_always_incremented(name, nodes, counts) == CountGet(counts, name) + 1

OutputCount_never_incremented(name, nodes, counts) == CountGet(counts, name)

OutputCount(name, nodes, counts) ==
    IF name \in DOMAIN nodes THEN CountGet(counts, name) + 1 ELSE CountGet(counts, name)

\* pydot.Edge(input_node, op_node)
InputEdge_reversed(input_node, node) == [src |-> node, dst |-> input_node]

InputEdge(input_node, node) == [src |-> input_node, dst |-> node]

\* pydot.Edge(op_node, output_node)
OutputEdge(node, output_node) == [src |-> node, dst |-> output_node]

CurOp == graph[op_id + 1]

\* for op_id, op in enumerate(graph.node): op_node = node_producer(op, op_id); add_node
ProduceOpNode ==
    /\ pc = "op"
    /\ op_id < Len(graph)
    /\ LET r == ReallyGetOpNode(CurOp, op_id, embed_docstring) IN
         IF r.raised
         THEN /\ pc' = "raised"
              /\ UNCHANGED <<pos, op_node, heap, graph_nodes>>
         ELSE /\ heap' = Append(heap, r.node)
              /\ op_node' = Len(heap) + 1
              /\ graph_nodes' = Append(graph_nodes, Len(heap) + 1)
              /\ pos' = 0
              /\ pc' = "inputs"
    /\ UNCHANGED <<graph, embed_docstring, op_id, graph_edges, pydot_nodes, pydot_node_counts>>

\* one iteration of: for input_name in op.input
InputStep ==
    /\ pc = "inputs"
    /\ pos < Len(CurOp.input)
    /\ LET input_name == CurOp.input[pos + 1] IN
         IF InputIsNew(input_name, pydot_nodes)
         THEN /\ heap' = Append(heap,
                     BlobNode(input_name, CountGet(pydot_node_counts, input_name), op_id))
              /\ pydot_node_counts' =
                     Put(pydot_node_counts, input_name, CountGet(pydot_node_counts, input_name))
              /\ pydot_nodes' = Put(pydot_nodes, input_name, Len(heap) + 1)
              /\ graph_nodes' = Append(graph_nodes, Len(heap) + 1)
              /\ graph_edges' = Append(graph_edges, InputEdge(Len(heap) + 1, op_node))
         ELSE /\ graph_nodes' = Append(graph_nodes, pydot_nodes[input_name])
              /\ graph_edges' = Append(graph_edges, InputEdge(pydot_nodes[input_name], op_node))
              /\ UNCHANGED <<heap, pydot_nodes, pydot_node_counts>>
    /\ pos' = pos + 1
    /\ UNCHANGED <<graph, embed_docstring, pc, op_id, op_node>>

\* the input loop is exhausted, the output loop starts
EndInputs ==
    /\ pc = "inputs"
    /\ pos = Len(CurOp.input)
    /\ pc' = "outputs"
    /\ pos' = 0
    /\ UNCHANGED <<graph, embed_docstring, op_id, op_node, heap, graph_nodes, graph_edges,
                   pydot_nodes, pydot_node_counts>>

\* one iteration of: for output_name in op.output
OutputStep ==
    /\ pc = "outputs"
    /\ pos < Len(CurOp.output)
    /\ LET output_name == CurOp.output[pos + 1]
           count == OutputCount(output_name, pydot_nodes, pydot_node_counts)
       IN /\ pydot_node_counts' = Put(pydot_node_counts, output_name, count)
          /\ heap' = Append(heap, BlobNode(output_name, count, op_id))
          /\ pydot_nodes' = Put(pydot_nodes, output_name, Len(heap) + 1)
          /\ graph_nodes' = Append(graph_nodes, Len(heap) + 1)
          /\ graph_edges' = Append(graph_edges, OutputEdge(op_node, Len(heap) + 1))
    /\ pos' = pos + 1
    /\ UNCHANGED <<graph, embed_docstring, pc, op_id, op_node>>

\* the output loop is exhausted, the operator loop advances
EndOutputs ==
    /\ pc = "outputs"
    /\ pos = Len(CurOp.output)
    /\ op_id' = op_id + 1
    /\ pc' = "op"
    /\ pos' = 0
    /\ UNCHANGED <<graph, embed_docstring, op_node, heap, graph_nodes, graph_edges,
                   pydot_nodes, pydot_node_counts>>

\* return pydot_graph
Return ==
    /\ pc = "op"
    /\ op_id = Len(graph)
    /\ pc' = "done"
    /\ UNCHANGED <<graph, embed_docstring, op_id, pos, op_node, heap, graph_nodes,
                   graph_edges, pydot_nodes, pydot_node_counts>>

-----------------------------------------------------------------------------
(* The operator lists explored *)

MaxOps == 3      \* longest operator list built freely from Ops
MaxChain == 10   \* number of in-place operators of ChainGraph

Op(name, op_type, input, output, doc_string) ==
    [name |-> name, op_type |-> op_type, input |-> input, output |-> output,
     doc_string |-> doc_string]

X == <<"X">>
Y == <<"Y">>

Ops ==
    { Op(<<"n">>, <<"T">>, <<X>>, <<Y>>, <<>>),
      Op(<<"r">>, <<"R", "e", "l", "u">>, <<Y>>, <<Y>>, <<"a", "\\", "\"", "b">>),
      Op(<<"d">>, <<"T">>, <<X, X>>, <<Y, Y>>, <<"<", ">">>),
      Op(<<>>, <<"C", "o", "n", "v">>, <<X, Y>>, <<X>>,
         <<"<", "s", "c", "r", "i", "p", "t", ">", "\"", "h", "i", "\"",
           "<", "/", "s", "c", "r", "i", "p", "t", ">">>),
      Op(<<"c">>, <<"T">>, <<>>, <<X>>, <<"\n">>),
      Op(<<"s">>, <<"T">>, <<Y>>, <<>>, <<>>) }

BroadGraphs == UNION { [1..n -> Ops] : n \in 0..MaxOps }

\* a blob "a" overwritten in place MaxChain times, next to a blob "a1"
ChainGraph ==
    [k \in 1..(MaxChain + 1) |->
        IF k = 1
        THEN Op(<<"f">>, <<"T">>, << <<"a", "1">> >>, << <<"a">> >>, <<>>)
        ELSE Op(<<"g">>, <<"T">>, << <<"a">> >>, << <<"a">> >>, <<>>)]

\* one unnamed operator more than the timing table has entries
LongGraph ==
    [k \in 1..(Len(timings) + 1) |->
        Op(<<>>, <<"R", "e", "l", "u">>, <<X>>, <<X>>, <<>>)]

\* two operators with different non-empty names whose op_type and output
\* name contain the labeler's own punctuation
AdvGraph ==
    << Op(<<"x">>,
          <<"y", "/", "T", " ", "(", "o", "p", "#", "1", ")", "\n", " ",
            "o", "u", "t", "p", "u", "t", "0", " ", "q">>,
          <<>>, <<>>, <<>>),
       Op(<<"x", "/", "y">>, <<"T">>, <<>>,
          << <<"q", " ", "(", "o", "p", "#", "0", ")">> >>, <<>>) >>

Graphs == BroadGraphs \cup {ChainGraph, LongGraph, AdvGraph}

Init ==
    /\ graph \in Graphs
    /\ embed_docstring \in BOOLEAN
    /\ pc = "op"
    /\ op_id = 0
    /\ pos = 0
    /\ op_node = 0
    /\ heap = <<>>
    /\ graph_nodes = <<>>
    /\ graph_edges = <<>>
    /\ pydot_nodes = [k \in {} |-> 0]
    /\ pydot_node_counts = [k \in {} |-> 0]

Next ==
    \/ ProduceOpNode
    \/ InputStep
    \/ EndInputs
    \/ OutputStep
    \/ EndOutputs
    \/ Return

Spec == Init /\ [][Next]_vars

TypeOK ==
    /\ pc \in {"op", "inputs", "outputs", "done", "raised"}
    /\ op_id \in 0..Len(graph)
    /\ Len(graph_edges) <= Len(graph_nodes)

-----------------------------------------------------------------------------
(* What the operator list says, independently of the builder's state.       *)
(* Refs is the list of blob references in traversal order: for each         *)
(* operator its inputs, then its outputs.  Every reference adds one edge,    *)
(* so edge number e belongs to reference number e.                          *)

OpRefs(g, k) ==
    [i \in 1..Len(g[k].input) |-> [op |-> k - 1, kind |-> "in", name |-> g[k].input[i]]]
      \o [j \in 1..Len(g[k].output) |-> [op |-> k - 1, kind |-> "out", name |-> g[k].output[j]]]

RECURSIVE RefsFrom(_, _)
RefsFrom(g, k) == IF k > Len(g) THEN <<>> ELSE OpRefs(g, k) \o RefsFrom(g, k + 1)

Refs == RefsFrom(graph, 1)

NE == Len(graph_edges)

RefNames(R) == { R[e].name : e \in 1..Len(R) }

\* reference e is the first reference to its name
FirstRef(R, e) == \A f \in 1..(e - 1) : R[f].name # R[e].name

\* reference e makes a new blob version: an output, or a never-seen input
Creates(R, e) == R[e].kind = "out" \/ FirstRef(R, e)

\* the latest reference up to e that made a version of e's name
LastCreator(R, e) ==
    CHOOSE f \in 1..e :
        /\ R[f].name = R[e].name
        /\ Creates(R, f)
        /\ \A h \in (f + 1)..e : ~(R[h].name = R[e].name /\ Creates(R, h))

\* number of output references to n among the first m references
Productions(R, n, m) == Cardinality({ e \in 1..m : R[e].kind = "out" /\ R[e].name = n })

\* the input references to n made before n's first production, among the first m
EarlyReads(R, n, m) ==
    { e \in 1..m : /\ R[e].kind = "in"
                   /\ R[e].name = n
                   /\ \A f \in 1..(e - 1) : ~(R[f].kind = "out" /\ R[f].name = n) }

BlobEnd(R, e) == IF R[e].kind = "in" THEN graph_edges[e].src ELSE graph_edges[e].dst
OpEnd(R, e) == IF R[e].kind = "in" THEN graph_edges[e].dst ELSE graph_edges[e].src

BlobNodes == { x \in 1..Len(heap) : heap[x].kind = "blob" }
OpNodes == { x \in 1..Len(heap) : heap[x].kind = "op" }
BlobNodesOf(n) == { x \in BlobNodes : heap[x].blob = n }

\* operators whose input and output loops are both finished
FinishedOps == 0..(op_id - 1)

-----------------------------------------------------------------------------
(* Claims *)

\* C1: every operator node has one inbound edge per declared input and one
\* outbound edge per declared output, counted with multiplicity; an inbound
\* edge comes from the node that was the current version of the name when the
\* operator was processed (a new version-0 node for a never-seen name), an
\* outbound edge goes to a blob node newly created by that operator.
C1_OperatorEdges ==
    LET R == Refs IN
    /\ NE <= Len(R)
    /\ \A e \in 1..NE :
         /\ heap[OpEnd(R, e)].kind = "op"
         /\ heap[OpEnd(R, e)].op = R[e].op
         /\ heap[BlobEnd(R, e)].kind = "blob"
         /\ heap[BlobEnd(R, e)].blob = R[e].name
         /\ R[e].kind = "in" => BlobEnd(R, e) = BlobEnd(R, LastCreator(R, e))
         /\ FirstRef(R, e) => heap[BlobEnd(R, e)].ver = 0
         /\ Creates(R, e) =>
              /\ heap[BlobEnd(R, e)].op = R[e].op
              /\ \A f \in 1..(e - 1) : BlobEnd(R, f) # BlobEnd(R, e)
    /\ \A k \in FinishedOps :
         /\ Cardinality({ x \in OpNodes : heap[x].op = k }) = 1
         /\ \A x \in OpNodes :
              heap[x].op = k =>
                /\ Cardinality({ e \in 1..NE : graph_edges[e].dst = x }) = Len(graph[k + 1].input)
                /\ Cardinality({ e \in 1..NE : graph_edges[e].src = x }) = Len(graph[k + 1].output)

C1_Witness ==
    LET R == Refs IN
    /\ pc = "done"
    /\ \E k \in 1..Len(graph) : graph[k].input = <<X, X>> /\ graph[k].output = <<Y, Y>>
    /\ \E e \in 1..NE : R[e].kind = "in" /\ heap[graph_edges[e].src].ver >= 1

\* C2: two blob versions that differ in blob name or in version counter get
\* different internal identities.
C2_IdentitiesCollisionFree ==
    \A x, y \in BlobNodes :
        (heap[x].blob # heap[y].blob \/ heap[x].ver # heap[y].ver)
            => heap[x].name # heap[y].name

\* the emitted graph: edges between emitted node names
EmittedEdges == { <<heap[graph_edges[e].src].name, heap[graph_edges[e].dst].name>> : e \in 1..NE }

\* remove, again and again, the nodes no remaining edge enters; a cycle is what is left
RECURSIVE Strip(_, _)
Strip(N, E) ==
    LET sources == { n \in N : \A d \in E : ~(d[2] = n /\ d[1] \in N) } IN
    IF sources = {} THEN N ELSE Strip(N \ sources, E)

Acyclic(E) == Strip({ d[1] : d \in E } \cup { d[2] : d \in E }, E) = {}

\* C3: the returned graph, with nodes taken by their emitted names, has no
\* directed cycle.
C3_EmittedGraphAcyclic == pc = "done" => Acyclic(EmittedEdges)

\* C4: a blob name produced N times has N+1 distinct blob node identities if
\* it was read before its first production, and N otherwise.
C4_IdentitiesPerName ==
    LET R == Refs IN
    \A n \in RefNames(R) :
        Cardinality({ heap[x].name : x \in BlobNodesOf(n) })
            = Productions(R, n, NE) + (IF EarlyReads(R, n, NE) # {} THEN 1 ELSE 0)

C4_Witness ==
    LET R == Refs IN
    /\ pc = "done"
    /\ \E n, m \in RefNames(R) :
         /\ EarlyReads(R, n, NE) # {} /\ Productions(R, n, NE) >= 1
         /\ EarlyReads(R, m, NE) = {} /\ Productions(R, m, NE) >= 2

\* C5: a name read before it is ever produced has exactly one node, of
\* version 0, which every read made before the first production uses; an
\* input reference never creates a second node for a name.
C5_EarlyReadsShareOneNode ==
    LET R == Refs IN
    \A n \in RefNames(R) :
        LET byInput == { x \in BlobNodesOf(n) :
                            \A e \in 1..NE : ~(R[e].kind = "out" /\ graph_edges[e].dst = x) }
        IN /\ Cardinality(byInput) <= 1
           /\ EarlyReads(R, n, NE) # {} =>
                \E x \in byInput :
                    /\ heap[x].ver = 0
                    /\ \A e \in EarlyReads(R, n, NE) : graph_edges[e].src = x

C5_Witness ==
    LET R == Refs IN
    /\ pc = "done"
    /\ \E n \in RefNames(R) :
         /\ Cardinality(EarlyReads(R, n, NE)) >= 3
         /\ Productions(R, n, NE) >= 1

\* C6 as stated: no edge has a source node created later than its target node.
C6_SourceCreatedNoLater ==
    \A e \in 1..NE : graph_edges[e].src <= graph_edges[e].dst

\* C6 amended: no edge has a source node created while a later operator was
\* being processed than the operator during which its target was created.
C6_SourceFromNoLaterOperator ==
    \A e \in 1..NE : heap[graph_edges[e].src].op <= heap[graph_edges[e].dst].op

C6_Witness ==
    /\ pc = "done"
    /\ \E e \in 1..NE : graph_edges[e].src > graph_edges[e].dst
    /\ \E e \in 1..NE : heap[graph_edges[e].src].op < heap[graph_edges[e].dst].op

IsPrefix(p, s) == Len(p) <= Len(s) /\ SubSeq(s, 1, Len(p)) = p

\* C7: labelling an unnamed operator never raises, at any position; the label
\* carries the table entry of the position, or 0 past the table.
C7_UnnamedLabelNeverFatal ==
    /\ pc # "raised"
    /\ \A x \in OpNodes :
         LET k == heap[x].op
             op == graph[k + 1]
         IN op.name = <<>> =>
              IsPrefix(op.op_type \o <<" ", "(", "o", "p", "#">> \o str(k) \o <<")", " ", "[">>
                         \o str(IF k < Len(timings) THEN timings[k + 1] ELSE 0)
                         \o <<" ", "n", "s", "]">>,
                       heap[x].name)

UniqueNonEmptyNames(g) ==
    /\ \A k \in 1..Len(g) : g[k].name # <<>>
    /\ \A j, k \in 1..Len(g) : j # k => g[j].name # g[k].name

OpNodeSeq == SelectSeq(graph_nodes, LAMBDA x : heap[x].kind = "op")

\* C8: when every operator has a unique non-empty name, the operator node
\* labels are pairwise distinct and appear in the count and order of the
\* operators.
C8_LabelsOneToOne ==
    (pc = "done" /\ UniqueNonEmptyNames(graph)) =>
        /\ Len(OpNodeSeq) = Len(graph)
        /\ \A k \in 1..Len(OpNodeSeq) : heap[OpNodeSeq[k]].op = k - 1
        /\ \A j, k \in 1..Len(OpNodeSeq) :
             j # k => heap[OpNodeSeq[j]].name # heap[OpNodeSeq[k]].name

\* C9: a link target starts with javascript:alert( , ends with ) and has no
\* < , > or double quote in between.
C9_LinkTargetSanitized ==
    \A x \in OpNodes :
        heap[x].has_URL =>
            LET u == heap[x].URL IN
            /\ Len(u) > Len(UrlPrefix)
            /\ SubSeq(u, 1, Len(UrlPrefix)) = UrlPrefix
            /\ u[Len(u)] = ")"
            /\ \A i \in (Len(UrlPrefix) + 1)..(Len(u) - 1) : u[i] \notin {"<", ">", "\""}

C9_Witness ==
    \E x \in OpNodes :
        /\ heap[x].has_URL
        /\ \E i, j \in 1..Len(graph[heap[x].op + 1].doc_string) :
             /\ graph[heap[x].op + 1].doc_string[i] = "<"
             /\ graph[heap[x].op + 1].doc_string[j] = "\""

Count(n) == CountGet(pydot_node_counts, n)

\* the step about to be taken declares n as an output
OutputsNow(n) == pc = "outputs" /\ pos < Len(CurOp.output) /\ CurOp.output[pos + 1] = n

\* n has been referenced, as an input or an output, before this step
SeenBefore(n) == \E e \in 1..NE : Refs[e].name = n

\* C10: every counter starts at 0 and a step changes it only by adding one
\* when the step declares the name as an output and the name was referenced
\* before; no other step changes any counter.
C10_CounterSteps ==
    /\ \A n \in RefNames(Refs) : Count(n) = 0
    /\ [][ \A n \in RefNames(Refs) :
               Count(n)' = Count(n) + (IF OutputsNow(n) /\ SeenBefore(n) THEN 1 ELSE 0) ]_vars

C10_Witness ==
    \E n \in RefNames(Refs) :
        /\ Count(n) >= 2
        /\ EarlyReads(Refs, n, NE) # {}

====
